---- MODULE Spec2Model ----
(***************************************************************************)
(* Model of go-git's tree object: the binary tree codec (Tree.Decode,      *)
(* Tree.Encode, Tree.decodeFileMode), the lazily built entry index          *)
(* (Tree.entry, Tree.buildMap), the path resolver (Tree.findEntry,          *)
(* Tree.dir, Tree.File) and the filtered iterators (FileIter, TreeIter).    *)
(*                                                                         *)
(* A byte is a one-symbol string.  An os.FileMode is a uint32; it is kept   *)
(* as the pair [hi, lo] with value hi * 2^27 + lo, so that bit 27           *)
(* (os.ModeSymlink) is hi = 1, bit 31 (os.ModeDir) is hi = 16, and 2^27 is  *)
(* exactly nine octal digits.                                               *)
(***************************************************************************)
EXTENDS Integers, Sequences, FiniteSets, TLC

VARIABLES
    cIn,      \* codec: the input under test (entry list, body or mode text)
    cOp,      \* codec: the operation applied to cIn ("init" before any)
    cOut,     \* codec: what the operation returned
    tree,     \* the receiver Tree: Entries, Hash and the index m
    store,    \* the object storage: what Get finds under each hash
    call,     \* the last call made on the receiver and its argument
    ret,      \* what that call returned
    it,       \* the receiver iterator (a FileIter or a TreeIter) and its walker
    fe        \* the ForEach call in progress on it: position, callback history

codecVars == <<cIn, cOp, cOut>>
treeVars == <<tree, store, call, ret>>
iterVars == <<it, fe>>
vars == <<cIn, cOp, cOut, tree, store, call, ret, it, fe>>

----------------------------------------------------------------------------
(* Bounds of the model *)

\* width of a core.Hash in bytes (20 in the program)
HashWidth == 2
\* longest entry list / number of records of a generated input
MaxEntries == 2
\* longest exhaustively generated octal mode text
MaxModeLen == 2
\* longest path, in bytes, handed to findEntry and File
MaxPathLen == 5
\* most ForEach calls made on one iterator
MaxRuns == 2
\* longest content, in bytes, of a file split into lines
MaxContentLen == 4

----------------------------------------------------------------------------
(* Bytes, errors *)

SP == " "
NUL == "NUL"
SLASH == "/"

Nil == "nil"
EOF == "io.EOF"
ErrUnexpectedEOF == "io.ErrUnexpectedEOF"
ErrSyntax == "strconv.ErrSyntax"
ErrRange == "strconv.ErrRange"
ErrUnsupportedObject == "ErrUnsupportedObject"
ErrIO == "ErrIO"
ErrObjectNotFound == "core.ErrObjectNotFound"
ErrFileNotFound == "ErrFileNotFound"
errDirNotFound == "errDirNotFound"
errEntryNotFound == "errEntryNotFound"

TreeObject == "tree"
BlobObject == "blob"
CommitObject == "commit"

Two27 == 2^27
maxTreeDepth == 1024

\* the element of a singleton set.  Only({e : x \in {v}}) is e with x bound
\* to the value of v, computed once.
Only(S) == CHOOSE x \in S : TRUE

DigitVal(c) ==
    CASE c = "0" -> 0 [] c = "1" -> 1 [] c = "2" -> 2 [] c = "3" -> 3
      [] c = "4" -> 4 [] c = "5" -> 5 [] c = "6" -> 6 [] c = "7" -> 7

OctDigit == {"0", "1", "2", "3", "4", "5", "6", "7"}
DigitOf(n) == CHOOSE c \in OctDigit : DigitVal(c) = n

----------------------------------------------------------------------------
(* os.FileMode as [hi, lo] *)

Mode(hi, lo) == [hi |-> hi, lo |-> lo]
\* the values compared against in decodeFileMode
TreeModeValue == 16384
SymlinkModeValue == 40960
\* os.ModeDir = 1 << 31, os.ModeSymlink = 1 << 27
OrModeDir(m) == [m EXCEPT !.hi = IF (m.hi \div 16) % 2 = 1 THEN m.hi ELSE m.hi + 16]
OrModeSymlink(m) == [m EXCEPT !.hi = IF m.hi % 2 = 1 THEN m.hi ELSE m.hi + 1]
IsDir(m) == (m.hi \div 16) % 2 = 1
IsSymlink(m) == m.hi % 2 = 1

\* strconv.ParseUint(s, 8, 64) over octal digits: a left fold, value kept
\* as [hi, lo]; 64-bit overflow needs 22 digits and is out of the bounds
RECURSIVE OctAcc(_, _)
OctAcc(s, acc) ==
    IF s = <<>> THEN acc
    ELSE LET x == acc.lo * 8 + DigitVal(Head(s))
         IN OctAcc(Tail(s), Mode(acc.hi * 8 + x \div Two27, x % Two27))

\* strconv.ParseInt(s, 8, 32): [neg, mag, err]; mag is the magnitude
ParseInt(s) ==
    LET signed == s # <<>> /\ Head(s) \in {"+", "-"}
        neg == signed /\ Head(s) = "-"
        digits == IF signed THEN Tail(s) ELSE s
    IN IF digits = <<>> \/ \E i \in 1..Len(digits) : digits[i] \notin OctDigit
       THEN [neg |-> FALSE, mag |-> Mode(0, 0), err |-> ErrSyntax]
       ELSE LET un == OctAcc(digits, Mode(0, 0))
                tooBig == IF neg THEN un.hi > 16 \/ (un.hi = 16 /\ un.lo > 0)
                                 ELSE un.hi >= 16
            IN IF tooBig
               THEN [neg |-> neg, mag |-> Mode(15, Two27 - 1), err |-> ErrRange]
               ELSE [neg |-> neg, mag |-> un, err |-> Nil]

\* os.FileMode(fm): conversion of the int64 to uint32 (two's complement)
ToFileMode(neg, mag) ==
    IF ~neg \/ (mag.hi = 0 /\ mag.lo = 0) THEN mag
    ELSE IF mag.lo = 0 THEN Mode(32 - mag.hi, 0)
    ELSE Mode(31 - mag.hi, Two27 - mag.lo)

decodeFileMode(mode) ==
    Only({IF p.err # Nil
          THEN [m |-> Mode(0, 0), err |-> p.err]
          ELSE [m |-> IF ~p.neg /\ p.mag = Mode(0, TreeModeValue)
                      THEN OrModeDir(ToFileMode(p.neg, p.mag))
                      ELSE IF ~p.neg /\ p.mag = Mode(0, SymlinkModeValue)
                      THEN OrModeSymlink(ToFileMode(p.neg, p.mag))
                      ELSE ToFileMode(p.neg, p.mag),
                err |-> Nil] :
          p \in {ParseInt(mode)}})

\* fmt's %o of a uint32: octal, no sign, no leading zeros
RECURSIVE OctText(_)
OctText(n) ==
    IF n < 8 THEN <<DigitOf(n)>> ELSE OctText(n \div 8) \o <<DigitOf(n % 8)>>

PadZero(s, w) ==
    [i \in 1..w |-> IF i <= w - Len(s) THEN "0" ELSE s[i - (w - Len(s))]]

FormatOctal(m) ==
    IF m.hi = 0 THEN OctText(m.lo) ELSE OctText(m.hi) \o PadZero(OctText(m.lo), 9)

----------------------------------------------------------------------------
(* Objects, trees *)

\* a core.Object: kind, declared size, body, hash, and whether Reader() fails
Object(type, body, hash) ==
    [Type |-> type, Size |-> Len(body), Body |-> body, Hash |-> hash, rerr |-> Nil]

TreeEntry(name, mode, hash) == [Name |-> name, Mode |-> mode, Hash |-> hash]

\* a nil map (t.m == nil) against a built one
NoMap == [built |-> FALSE, idx |-> <<>>]
ZeroHash == [k \in 1..HashWidth |-> NUL]
\* &Tree{}
NewTree == [Entries |-> <<>>, Hash |-> ZeroHash, m |-> NoMap]

\* position of the first delim in s, 0 when there is none
IndexOf(s, delim) ==
    IF \E i \in 1..Len(s) : s[i] = delim
    THEN CHOOSE i \in 1..Len(s) : s[i] = delim /\ \A j \in 1..(i - 1) : s[j] # delim
    ELSE 0

RECURSIVE DecodeLoop(_, _)

\* io.ReadFull(r, hash[:]) on the bytes r3 left after the name, then the
\* append of the entry and the next pass of the loop
DecodeHash(m, name, r3, entries) ==
    IF Len(r3) = 0 THEN [Entries |-> entries, err |-> EOF]
    ELSE IF Len(r3) < HashWidth THEN [Entries |-> entries, err |-> ErrUnexpectedEOF]
    ELSE Only({DecodeLoop(rest, es) :
               rest \in {SubSeq(r3, HashWidth + 1, Len(r3))},
               es \in {Append(entries,
                               TreeEntry(SubSeq(name, 1, Len(name) - 1), m,
                                         SubSeq(r3, 1, HashWidth)))}})

\* r.ReadString(0) on the bytes r2 left after the mode: the name through its
\* NUL, or all that is left (with io.EOF, which line 177 lets pass)
DecodeName(m, r2, entries) ==
    Only({IF z = 0 THEN DecodeHash(m, r2, <<>>, entries)
          ELSE DecodeHash(m, SubSeq(r2, 1, z), SubSeq(r2, z + 1, Len(r2)), entries) :
          z \in {IndexOf(r2, NUL)}})

\* one pass of the read loop of Decode over the unread bytes r
DecodeLoop(r, entries) ==
    Only({IF sp = 0
          THEN \* ReadString(' ') reports io.EOF, with or without data: break
               [Entries |-> entries, err |-> Nil]
          ELSE Only({IF fm.err # Nil THEN [Entries |-> entries, err |-> fm.err]
                     ELSE DecodeName(fm.m, r2, entries) :
                     fm \in {decodeFileMode(SubSeq(r, 1, sp - 1))},
                     r2 \in {SubSeq(r, sp + 1, Len(r))}}) :
          sp \in {IndexOf(r, SP)}})

\* DecodeOf taking the object's hash before it looks at the object's kind
DecodeOf_HashFirst(t, o) ==
    IF o.Type # TreeObject
    THEN [t |-> [t EXCEPT !.Hash = o.Hash], err |-> ErrUnsupportedObject,
          opened |-> FALSE]
    ELSE IF o.Size = 0
    THEN [t |-> [t EXCEPT !.Hash = o.Hash], err |-> Nil, opened |-> FALSE]
    ELSE IF o.rerr # Nil
    THEN [t |-> [Entries |-> <<>>, Hash |-> o.Hash, m |-> NoMap],
          err |-> o.rerr, opened |-> TRUE]
    ELSE Only({[t |-> [Entries |-> r.Entries, Hash |-> o.Hash, m |-> NoMap],
                err |-> r.err, opened |-> TRUE] :
               r \in {DecodeLoop(o.Body, <<>>)}})

\* Tree.Decode: the tree after the call, the error returned, and whether
\* o.Reader() was called
DecodeOf(t, o) ==
    IF o.Type # TreeObject
    THEN [t |-> t, err |-> ErrUnsupportedObject, opened |-> FALSE]
    ELSE IF o.Size = 0
    THEN [t |-> [t EXCEPT !.Hash = o.Hash], err |-> Nil, opened |-> FALSE]
    ELSE IF o.rerr # Nil
    THEN [t |-> [Entries |-> <<>>, Hash |-> o.Hash, m |-> NoMap],
          err |-> o.rerr, opened |-> TRUE]
    ELSE Only({[t |-> [Entries |-> r.Entries, Hash |-> o.Hash, m |-> NoMap],
                err |-> r.err, opened |-> TRUE] :
               r \in {DecodeLoop(o.Body, <<>>)}})

Decode(t, o) == Only({DecodeOf(t0, o0) : t0 \in {t}, o0 \in {o}})

\* the three writes of Encode for entry e, after n writes that wrote body;
\* write number failAt fails (0: none does)
EncodeEntry(e, w1, body, n, failAt) ==
    IF failAt = n + 1 THEN [Body |-> body, err |-> ErrIO]
    ELSE IF failAt = n + 2 THEN [Body |-> body \o w1, err |-> ErrIO]
    ELSE IF failAt = n + 3 THEN [Body |-> body \o w1 \o <<NUL>>, err |-> ErrIO]
    ELSE [Body |-> body \o w1 \o <<NUL>> \o e.Hash, err |-> Nil]

\* the loop of Encode over the entries from position i on
RECURSIVE EncodeLoop(_, _, _, _, _)
EncodeLoop(entries, i, body, n, failAt) ==
    IF i > Len(entries) THEN [Body |-> body, err |-> Nil]
    ELSE Only({IF w.err # Nil THEN w
               ELSE EncodeLoop(entries, i + 1, w.Body, n + 3, failAt) :
               w \in {EncodeEntry(entries[i],
                                  FormatOctal(entries[i].Mode) \o <<SP>> \o entries[i].Name,
                                  body, n, failAt)}})

\* EncodeOf setting the size after a failed write too
EncodeOf_SizeOnError(t, o, failAt) ==
    IF failAt = -1 THEN [o |-> [o EXCEPT !.Type = TreeObject], err |-> ErrIO]
    ELSE Only({[o |-> [o EXCEPT !.Type = TreeObject, !.Body = r.Body,
                                !.Size = Len(r.Body)],
                err |-> r.err] :
               r \in {EncodeLoop(t.Entries, 1, <<>>, 0, failAt)}})

\* Tree.Encode into object o: the object after the call and the error;
\* failAt = -1: o.Writer() itself fails
EncodeOf(t, o, failAt) ==
    IF failAt = -1 THEN [o |-> [o EXCEPT !.Type = TreeObject], err |-> ErrIO]
    ELSE Only({IF r.err # Nil
               THEN [o |-> [o EXCEPT !.Type = TreeObject, !.Body = r.Body],
                     err |-> r.err]
               ELSE [o |-> [o EXCEPT !.Type = TreeObject, !.Body = r.Body,
                                     !.Size = Len(r.Body)],
                     err |-> Nil] :
               r \in {EncodeLoop(t.Entries, 1, <<>>, 0, failAt)}})

Encode(t, o, failAt) == Only({EncodeOf(t0, o0, failAt) : t0 \in {t}, o0 \in {o}})

\* ObjectStorage.NewObject(): an empty, writable object
NewObject == Object("", <<>>, ZeroHash)

----------------------------------------------------------------------------
(* Helpers, mode texts, records of the wire format *)

SeqsUpTo(S, n) == UNION {[1..k -> S] : k \in 0..n}

RECURSIVE Flatten(_)
Flatten(ss) == IF ss = <<>> THEN <<>> ELSE Head(ss) \o Flatten(Tail(ss))

\* a hash whose bytes include the two delimiters of the wire format
HashOf(b) ==
    [k \in 1..HashWidth |-> IF k = 1 THEN b ELSE IF k % 2 = 0 THEN NUL ELSE SP]

T100644 == <<"1", "0", "0", "6", "4", "4">>
T100755 == <<"1", "0", "0", "7", "5", "5">>
T40000 == <<"4", "0", "0", "0", "0">>
T120000 == <<"1", "2", "0", "0", "0", "0">>

\* the modes Decode gives regular files, executables, directories, symlinks
RegularMode == decodeFileMode(T100644).m
ExecutableMode == decodeFileMode(T100755).m
DirMode == decodeFileMode(T40000).m
SymlinkMode == decodeFileMode(T120000).m

CodecNames == {<<"a">>, <<"b", "c">>}
CodecHashes == {HashOf("x"), HashOf(SP)}
WellFormedModes == {RegularMode, ExecutableMode, DirMode, SymlinkMode}
WellFormedEntries ==
    {TreeEntry(n, m, h) : n \in CodecNames, m \in WellFormedModes, h \in CodecHashes}

\* one record of the wire format: <octal-mode> SP <name> NUL <raw-hash>
Rec(modeText, name, hash) == modeText \o <<SP>> \o name \o <<NUL>> \o hash
WireModes == {T100644, T100755, T40000, T120000}
WireRecords ==
    {<<mt, n, h>> : mt \in WireModes, n \in CodecNames, h \in CodecHashes}
RecBytes(r) == Rec(r[1], r[2], r[3])
BodyOf(recs) == Flatten([i \in 1..Len(recs) |-> RecBytes(recs[i])])

----------------------------------------------------------------------------
(* The entry index and the path resolver *)

\* the nil *TreeEntry, the nil *File, the nil core.Object
NoEntry == TreeEntry(<<>>, Mode(0, 0), ZeroHash)
NoFile == [Name |-> <<>>, Mode |-> Mode(0, 0), Blob |-> [Hash |-> ZeroHash, Body |-> <<>>], nil |-> TRUE]
NoObject == [Type |-> "", Size |-> 0, Body |-> <<>>, Hash |-> ZeroHash, rerr |-> Nil]

\* buildMap keeping the first entry of a name, not the last
buildMap_FirstWins(t) ==
    Only({[t0 EXCEPT !.m =
             [built |-> TRUE,
              idx |-> [n \in {t0.Entries[i].Name : i \in 1..Len(t0.Entries)} |->
                         CHOOSE i \in 1..Len(t0.Entries) :
                             /\ t0.Entries[i].Name = n
                             /\ \A j \in 1..(i - 1) : t0.Entries[j].Name # n]]] :
          t0 \in {t}})

\* Tree.buildMap: each name to the position of its entry, a later entry of
\* the same name overwriting an earlier one
buildMap(t) ==
    Only({[t0 EXCEPT !.m =
             [built |-> TRUE,
              idx |-> [n \in {t0.Entries[i].Name : i \in 1..Len(t0.Entries)} |->
                         CHOOSE i \in 1..Len(t0.Entries) :
                             /\ t0.Entries[i].Name = n
                             /\ \A j \in (i + 1)..Len(t0.Entries) :
                                    t0.Entries[j].Name # n]]] :
          t0 \in {t}})

\* entry emptying the entry list when the name is not found
entry_EmptyOnMiss(t, baseName) ==
    Only({IF baseName \in DOMAIN t1.m.idx
          THEN [t |-> t1, entry |-> t1.Entries[t1.m.idx[baseName]], err |-> Nil]
          ELSE [t |-> [t1 EXCEPT !.Entries = <<>>], entry |-> NoEntry,
                err |-> errEntryNotFound] :
          t1 \in {IF ~t.m.built THEN buildMap(t) ELSE t}})

\* Tree.entry: the receiver after the call (index built), the entry, the error
entry(t, baseName) ==
    Only({IF baseName \in DOMAIN t1.m.idx
          THEN [t |-> t1, entry |-> t1.Entries[t1.m.idx[baseName]], err |-> Nil]
          ELSE [t |-> t1, entry |-> NoEntry, err |-> errEntryNotFound] :
          t1 \in {IF ~t.m.built THEN buildMap(t) ELSE t}})

\* what the storage holds under hash h when it holds an object of that kind
\* there: the records of a stored tree, the bytes after them, a blob's bytes
H1 == HashOf("1")
H2 == HashOf("2")
H3 == HashOf("3")
\* a hash entries refer to and no store holds
H4 == HashOf("4")
StoreHashes == {H1, H2, H3}

\* the hash of the directory at level k of a chain of directories nested
\* one in the other, each holding the next as its one entry "d"
ChainHash(k) ==
    [i \in 1..HashWidth |-> IF i = 1 THEN "c" ELSE IF i = 2 THEN ToString(k) ELSE NUL]
ChainLevel(h) == CHOOSE k \in 1..(maxTreeDepth + 2) : ToString(k) = h[2]

TreeRecords(h) ==
    IF h = H1 THEN << <<T40000, <<"a">>, H2>>, <<T100644, <<"b">>, H3>> >>
    ELSE IF h = H2 THEN << <<T100755, <<"a">>, H1>>, <<T120000, <<"b">>, H4>>,
                           <<T100644, <<"a">>, H3>> >>
    ELSE IF h[1] = "c" THEN << <<T40000, <<"d">>, ChainHash(ChainLevel(h) + 1)>> >>
    ELSE << <<T100644, <<"b">>, H1>> >>
\* H3's tree body ends in a record cut short after its name
TreeTail(h) == IF h = H3 THEN T100644 \o <<SP, "a">> ELSE <<>>
BlobBytes(h) == <<"d", h[1]>>

StoredObject(h, kind) ==
    IF kind = TreeObject
    THEN Object(TreeObject, BodyOf(TreeRecords(h)) \o TreeTail(h), h)
    ELSE Object(kind, BlobBytes(h), h)

\* ObjectStorage.Get
Get(st, h) ==
    IF h \notin DOMAIN st \/ st[h] = "missing"
    THEN [obj |-> NoObject, err |-> ErrObjectNotFound]
    ELSE IF st[h] = "ioerr" THEN [obj |-> NoObject, err |-> ErrIO]
    ELSE [obj |-> StoredObject(h, st[h]), err |-> Nil]

\* dirOf handing on the store's not-found error as it hands on the others
dirOf_PassNotFound(e, g) ==
    IF e.err # Nil
    THEN [t |-> e.t, tree |-> NewTree, err |-> errDirNotFound, gets |-> <<>>]
    ELSE IF g.err # Nil
    THEN [t |-> e.t, tree |-> NewTree, err |-> g.err, gets |-> <<e.entry.Hash>>]
    ELSE IF g.obj.Type # TreeObject
    THEN [t |-> e.t, tree |-> NewTree, err |-> errDirNotFound, gets |-> <<e.entry.Hash>>]
    ELSE [t |-> e.t, tree |-> Decode(NewTree, g.obj).t, err |-> Nil,
          gets |-> <<e.entry.Hash>>]

\* what dir returns once the entry is looked up (e) and its object fetched (g)
dirOf(e, g) ==
    IF e.err # Nil
    THEN [t |-> e.t, tree |-> NewTree, err |-> errDirNotFound, gets |-> <<>>]
    ELSE IF g.err = ErrObjectNotFound
    THEN [t |-> e.t, tree |-> NewTree, err |-> errDirNotFound, gets |-> <<e.entry.Hash>>]
    ELSE IF g.err # Nil
    THEN [t |-> e.t, tree |-> NewTree, err |-> g.err, gets |-> <<e.entry.Hash>>]
    ELSE IF g.obj.Type # TreeObject
    THEN [t |-> e.t, tree |-> NewTree, err |-> errDirNotFound, gets |-> <<e.entry.Hash>>]
    ELSE [t |-> e.t, tree |-> Decode(NewTree, g.obj).t, err |-> Nil,
          gets |-> <<e.entry.Hash>>]

\* Tree.dir: the receiver after the call, the subtree, the error, the
\* hashes fetched from the store
dir(t, baseName, st) ==
    Only({Only({dirOf(e, g) : g \in {Get(st, e.entry.Hash)}}) :
          e \in {entry(t, baseName)}})

\* strings.Split(path, "/")
RECURSIVE Split(_)
Split(s) ==
    LET i == IndexOf(s, SLASH)
    IN IF i = 0 THEN <<s>>
       ELSE <<SubSeq(s, 1, i - 1)>> \o Split(SubSeq(s, i + 1, Len(s)))

\* the loop of findEntry from tree cur over the path parts left; the tree
\* returned is cur after the call
RECURSIVE findEntryLoop(_, _, _)
\* findEntryFrom going on from the tree it came from, not from the subtree
findEntryFrom_SameTree(d, pathParts, st) ==
    IF d.err # Nil
    THEN [t |-> d.t, entry |-> NoEntry, err |-> d.err, gets |-> d.gets]
    ELSE Only({[t |-> d.t, entry |-> r.entry, err |-> r.err, gets |-> d.gets \o r.gets] :
               r \in {findEntryLoop(d.t, Tail(pathParts), st)}})

\* what findEntry's loop does with what dir returned (d): hand on its error,
\* or go on from the subtree with the parts after the first
findEntryFrom(d, pathParts, st) ==
    IF d.err # Nil
    THEN [t |-> d.t, entry |-> NoEntry, err |-> d.err, gets |-> d.gets]
    ELSE Only({[t |-> d.t, entry |-> r.entry, err |-> r.err, gets |-> d.gets \o r.gets] :
               r \in {findEntryLoop(d.tree, Tail(pathParts), st)}})

findEntryLoop(cur, pathParts, st) ==
    IF Len(pathParts) > 1
    THEN Only({findEntryFrom(d, pathParts, st) : d \in {dir(cur, pathParts[1], st)}})
    ELSE Only({[t |-> e.t, entry |-> e.entry, err |-> e.err, gets |-> <<>>] :
               e \in {entry(cur, pathParts[1])}})

\* Tree.findEntry
findEntry(t, path, st) == Only({findEntryLoop(t, parts, st) : parts \in {Split(path)}})

\* Blob.Decode
BlobDecode(o) == [Hash |-> o.Hash, Body |-> o.Body]

newFile(name, m, b) == [Name |-> name, Mode |-> m, Blob |-> b, nil |-> FALSE]

\* FileOf handing on findEntry's own error instead of ErrFileNotFound
FileOf_PassErr(path, f, g) ==
    IF f.err # Nil
    THEN [t |-> f.t, file |-> NoFile, err |-> f.err, gets |-> f.gets]
    ELSE IF g.err = ErrObjectNotFound
    THEN [t |-> f.t, file |-> NoFile, err |-> ErrFileNotFound,
          gets |-> Append(f.gets, f.entry.Hash)]
    ELSE IF g.err # Nil
    THEN [t |-> f.t, file |-> NoFile, err |-> g.err,
          gets |-> Append(f.gets, f.entry.Hash)]
    ELSE IF g.obj.Type # BlobObject
    THEN [t |-> f.t, file |-> NoFile, err |-> ErrFileNotFound,
          gets |-> Append(f.gets, f.entry.Hash)]
    ELSE [t |-> f.t, file |-> newFile(path, f.entry.Mode, BlobDecode(g.obj)),
          err |-> Nil, gets |-> Append(f.gets, f.entry.Hash)]

\* what File returns once findEntry has returned (f) and the leaf's object
\* is fetched (g)
FileOf(path, f, g) ==
    IF f.err # Nil
    THEN [t |-> f.t, file |-> NoFile, err |-> ErrFileNotFound, gets |-> f.gets]
    ELSE IF g.err = ErrObjectNotFound
    THEN [t |-> f.t, file |-> NoFile, err |-> ErrFileNotFound,
          gets |-> Append(f.gets, f.entry.Hash)]
    ELSE IF g.err # Nil
    THEN [t |-> f.t, file |-> NoFile, err |-> g.err,
          gets |-> Append(f.gets, f.entry.Hash)]
    ELSE IF g.obj.Type # BlobObject
    THEN [t |-> f.t, file |-> NoFile, err |-> ErrFileNotFound,
          gets |-> Append(f.gets, f.entry.Hash)]
    ELSE [t |-> f.t, file |-> newFile(path, f.entry.Mode, BlobDecode(g.obj)),
          err |-> Nil, gets |-> Append(f.gets, f.entry.Hash)]

\* Tree.File
File(t, path, st) ==
    Only({Only({FileOf(path, f, g) : g \in {Get(st, f.entry.Hash)}}) :
          f \in {findEntry(t, path, st)}})

----------------------------------------------------------------------------
(* The tree walker and the filtered iterators *)

ErrMaxTreeDepth == "ErrMaxTreeDepth"
ErrStop == "core.ErrStop"
\* an error of the callback's own
ErrCallback == "errCallback"

NoBlob == [Hash |-> ZeroHash, Body |-> <<>>]
\* what the walker resolved an entry to: a *Blob, a *Tree or another object
WalkObj(kind, blob, t) == [kind |-> kind, blob |-> blob, tree |-> t]
NoWalkObj == WalkObj("none", NoBlob, NewTree)

\* a frame of the walker's stack
treeEntryIter(t, pos) == [t |-> t, pos |-> pos]

\* treeEntryIter.Next
treeEntryIterNext(f) ==
    IF f.pos >= Len(f.t.Entries)
    THEN [f |-> f, entry |-> NoEntry, err |-> EOF]
    ELSE [f |-> [f EXCEPT !.pos = f.pos + 1], entry |-> f.t.Entries[f.pos + 1],
          err |-> Nil]

\* NewTreeWalker(r, t): bound to the root t, one frame on it, no base path;
\* the storage r is the store of the state
NewTreeWalker(t) == [t |-> t, stack |-> <<treeEntryIter(t, 0)>>, base |-> <<>>]
NoWalker == [t |-> NewTree, stack |-> <<>>, base |-> <<>>]

\* TreeWalker.Close
WalkerClose(w) == [w EXCEPT !.stack = <<>>, !.base = <<>>]

\* the names joined with "/"
RECURSIVE JoinPath(_)
JoinPath(names) ==
    IF names = <<>> THEN <<>>
    ELSE IF Len(names) = 1 THEN names[1]
    ELSE names[1] \o <<SLASH>> \o JoinPath(Tail(names))

\* what Next returns; parts are the names the full path is joined from
WalkRet(w, parts, e, obj, err) ==
    [w |-> w, parts |-> parts, entry |-> e, obj |-> obj, err |-> err]

\* a variant that looks at the depth the stack has, not the depth it would get
WalkerYield_CheckAfterPush(w, e, o) ==
    IF o.Type = TreeObject
    THEN Only({
           IF d.err # Nil
           THEN WalkRet(w, <<>>, NoEntry, NoWalkObj, d.err)
           ELSE IF Len(w.stack) > maxTreeDepth
           THEN WalkRet(w, <<>>, NoEntry, NoWalkObj, ErrMaxTreeDepth)
           ELSE WalkRet([w EXCEPT !.stack = Append(w.stack, treeEntryIter(d.t, 0)),
                                  !.base = Append(w.base, e.Name)],
                        Append(w.base, e.Name), e,
                        WalkObj(TreeObject, NoBlob, d.t), Nil) :
           d \in {Decode(NewTree, o)}})
    ELSE IF o.Type = BlobObject
    THEN WalkRet(w, Append(w.base, e.Name), e,
                 WalkObj(BlobObject, BlobDecode(o), NewTree), Nil)
    ELSE WalkRet(w, Append(w.base, e.Name), e,
                 WalkObj(o.Type, NoBlob, NewTree), Nil)

\* the walker yields entry e resolved to object o: a tree is decoded and a
\* frame pushed for it, unless the stack would grow beyond maxTreeDepth
WalkerYield(w, e, o) ==
    IF o.Type = TreeObject
    THEN Only({
           IF d.err # Nil
           THEN WalkRet(w, <<>>, NoEntry, NoWalkObj, d.err)
           ELSE IF Len(w.stack) + 1 > maxTreeDepth
           THEN WalkRet(w, <<>>, NoEntry, NoWalkObj, ErrMaxTreeDepth)
           ELSE WalkRet([w EXCEPT !.stack = Append(w.stack, treeEntryIter(d.t, 0)),
                                  !.base = Append(w.base, e.Name)],
                        Append(w.base, e.Name), e,
                        WalkObj(TreeObject, NoBlob, d.t), Nil) :
           d \in {Decode(NewTree, o)}})
    ELSE IF o.Type = BlobObject
    THEN WalkRet(w, Append(w.base, e.Name), e,
                 WalkObj(BlobObject, BlobDecode(o), NewTree), Nil)
    ELSE WalkRet(w, Append(w.base, e.Name), e,
                 WalkObj(o.Type, NoBlob, NewTree), Nil)

\* TreeWalker.Next: the walker after the call, the full path (its names),
\* the entry, the object, the error.  Exhausted top frames are popped; an
\* entry whose object the store does not hold is passed over.
RECURSIVE WalkerNext(_, _)
WalkerStep(w, n, st) ==
    Only({IF g.err = ErrObjectNotFound THEN WalkerNext(w1, st)
          ELSE IF g.err # Nil THEN WalkRet(w1, <<>>, NoEntry, NoWalkObj, g.err)
          ELSE WalkerYield(w1, n.entry, g.obj) :
          g \in {Get(st, n.entry.Hash)},
          w1 \in {[w EXCEPT !.stack[Len(w.stack)] = n.f]}})

\* the exhausted frames popped off the top of the stack, one after the
\* other: the stack up to its last frame with entries left
WalkerPop(w) ==
    Only({[w EXCEPT !.stack = SubSeq(w.stack, 1, k), !.base = SubSeq(w.base, 1, k - 1)] :
          k \in {Only({IF live = {} THEN 0
                       ELSE CHOOSE j \in live : \A i \in live : i <= j :
                       live \in {{j \in 1..Len(w.stack) :
                                    treeEntryIterNext(w.stack[j]).err = Nil}}})}})

WalkerNext(w, st) ==
    Only({IF w1.stack = <<>>
          THEN WalkRet(w1, <<>>, NoEntry, NoWalkObj, EOF)
          ELSE Only({WalkerStep(w1, n, st) :
                     n \in {treeEntryIterNext(w1.stack[Len(w1.stack)])}}) :
          w1 \in {WalkerPop(w)}})

\* what an iterator's Next hands out: a *File or a *Tree
Item(file, t) == [file |-> file, tree |-> t]
NoItem == Item(NoFile, NewTree)
IterRet(w, item, err) == [w |-> w, item |-> item, err |-> err]

RECURSIVE FileIterNext(_, _)
\* FileIterNext naming the File by its entry's name, not by the full path
FileIterNext_EntryName(w, st) ==
    Only({IF r.err # Nil THEN IterRet(r.w, NoItem, r.err)
          ELSE IF r.obj.kind = BlobObject
          THEN IterRet(r.w, Item(newFile(r.entry.Name, r.entry.Mode, r.obj.blob), NewTree), Nil)
          ELSE FileIterNext(r.w, st) :
          r \in {WalkerNext(w, st)}})

\* FileIter.Next
FileIterNext(w, st) ==
    Only({IF r.err # Nil THEN IterRet(r.w, NoItem, r.err)
          ELSE IF r.obj.kind = BlobObject
          THEN IterRet(r.w, Item(newFile(JoinPath(r.parts), r.entry.Mode, r.obj.blob),
                                 NewTree), Nil)
          ELSE FileIterNext(r.w, st) :
          r \in {WalkerNext(w, st)}})

\* TreeIter.Next
RECURSIVE TreeIterNext(_, _)
TreeIterNext(w, st) ==
    Only({IF r.err # Nil THEN IterRet(r.w, NoItem, r.err)
          ELSE IF r.obj.kind = TreeObject
          THEN IterRet(r.w, Item(NoFile, r.obj.tree), Nil)
          ELSE TreeIterNext(r.w, st) :
          r \in {WalkerNext(w, st)}})

\* NewFileIter / NewTreeIter; closes counts the calls of Close on its walker
\* and got the results of the calls of Next made on it by the program, up to
\* the io.EOF of a walker with nothing left, err the error of the last call
NewIter(kind, t) ==
    [kind |-> kind, w |-> NewTreeWalker(t), closes |-> 0, got |-> <<>>, err |-> Nil]
IterNextOf(kind, w, st) ==
    IF kind = "file" THEN FileIterNext(w, st) ELSE TreeIterNext(w, st)

\* ForEach after Next returned err # nil: what ForEach returns
ForEachAfterNext(err) == IF err = EOF THEN Nil ELSE err

\* ForEachAfterCallback returning ErrStop as it returns any other error
ForEachAfterCallback_StopIsError(cbr) ==
    IF cbr = Nil THEN [done |-> FALSE, err |-> Nil]
    ELSE [done |-> TRUE, err |-> cbr]

\* ForEach after the callback returned cbr: go on, or return
ForEachAfterCallback(cbr) ==
    IF cbr = Nil THEN [done |-> FALSE, err |-> Nil]
    ELSE IF cbr = ErrStop THEN [done |-> TRUE, err |-> Nil]
    ELSE [done |-> TRUE, err |-> cbr]

\* no ForEach called yet; prevCalls and prevRets are the callback's calls
\* and returns of the ForEach call before the one in progress
NoForEach ==
    [pc |-> "idle", runs |-> 0, priv |-> NoWalker, privCloses |-> 0,
     item |-> NoItem, produced |-> <<>>, calls |-> <<>>, cbrets |-> <<>>,
     nexterr |-> Nil, err |-> Nil, prevCalls |-> <<>>, prevRets |-> <<>>]

\* the walker of ForEach's own iterator copied from the receiver's, cursor
\* and all
ForEachPrivate_CopyCursor(i) == IF i.kind = "file" THEN i.w ELSE NoWalker

\* the walker of the iterator FileIter.ForEach makes for itself: a new one
\* on the receiver's root (TreeIter.ForEach makes none)
ForEachPrivate(i) == IF i.kind = "file" THEN NewTreeWalker(i.w.t) ELSE NoWalker

iterIdle ==
    /\ it = [kind |-> "none", w |-> NoWalker, closes |-> 0, got |-> <<>>, err |-> Nil]
    /\ fe = NoForEach

----------------------------------------------------------------------------
(* Inputs of the codec *)

\* what is wrong with the first k bytes of record r standing last in a body
CutKind(r, k) ==
    IF k <= Len(r[1]) THEN "mode"
    ELSE IF k <= Len(r[1]) + 1 + Len(r[2]) THEN "name"
    ELSE "hash"

\* an input: its entry list (kind "entries") or its bytes (the other kinds)
Input(kind, v, bad) ==
    [kind |-> kind, entries |-> IF kind = "entries" THEN v ELSE <<>>,
     bytes |-> IF kind = "entries" THEN <<>> ELSE v, bad |-> bad]

EntryInputs == {Input("entries", es, "none") : es \in SeqsUpTo(WellFormedEntries, MaxEntries)}
BodyInputs == {Input("body", BodyOf(rs), "none") : rs \in SeqsUpTo(WireRecords, MaxEntries)}
MalformedInputs ==
    UNION {UNION {{Input("body", BodyOf(rs) \o SubSeq(RecBytes(r), 1, k), CutKind(r, k)) :
                     k \in 1..(Len(RecBytes(r)) - 1)} :
                  r \in WireRecords} :
           rs \in SeqsUpTo(WireRecords, MaxEntries - 1)}

SpecialModeTexts ==
    {T100644, T100755, T40000, T120000, <<"0">> \o T40000, <<"0">> \o T120000,
     <<"1", "0", "0", "0", "0", "0", "0", "0", "0", "0">>,
     FormatOctal(SymlinkMode), FormatOctal(DirMode),
     <<"1", "7", "7", "7", "7", "7", "7", "7", "7", "7", "7">>,
     <<"2", "0", "0", "0", "0", "0", "0", "0", "0", "0", "0">>,
     <<"-", "1">>, <<"+", "6", "4", "4">>, <<"8">>, <<"6", "4", "x">>, <<"-">>}
ModeInputs ==
    {Input("mode", mt, "none") : mt \in SeqsUpTo(OctDigit, MaxModeLen) \cup SpecialModeTexts}

NoOut == [err |-> Nil, entries |-> <<>>, body |-> <<>>, m |-> Mode(0, 0)]

----------------------------------------------------------------------------
(* Inputs of the resolver *)

StoreKinds == {BlobObject, TreeObject, CommitObject, "missing", "ioerr"}
Stores == [StoreHashes -> StoreKinds]
NoStore == [h \in StoreHashes |-> "missing"]

\* the records the receiver is decoded from; the second names "a" twice
RootRecords ==
    {<< <<T100644, <<"a">>, H3>>, <<T40000, <<"b">>, H1>> >>,
     << <<T40000, <<"a">>, H1>>, <<T100644, <<"a">>, H2>>, <<T100755, <<"b">>, H3>> >>}
RootHash == HashOf("r")
RootObject(recs) == Object(TreeObject, BodyOf(recs), RootHash)

PathBytes == {"a", "b", SLASH}
Paths == SeqsUpTo(PathBytes, MaxPathLen)
LookupNames == {<<"a">>, <<"b">>, <<"c">>}

\* the objects handed to Decode: tree objects that are empty, well formed,
\* with a name twice, with an unterminated last record, with a mode text
\* that is no octal number, with a failing reader; a blob and a commit
DecodeObjects ==
    {Object(TreeObject, <<>>, HashOf("e")),
     Object(TreeObject, BodyOf(<< <<T100644, <<"a">>, H3>>, <<T40000, <<"b">>, H1>> >>), RootHash),
     Object(TreeObject, BodyOf(<< <<T40000, <<"a">>, H1>>, <<T100644, <<"a">>, H2>> >>), HashOf("s")),
     Object(TreeObject, BodyOf(<< <<T100755, <<"c">>, H2>> >>) \o T100644, HashOf("u")),
     [Object(TreeObject, BodyOf(<< <<T100644, <<"a">>, H3>> >>), HashOf("f")) EXCEPT !.rerr = ErrIO],
     Object(TreeObject, BodyOf(<< <<T120000, <<"b">>, H4>> >>), HashOf("v")),
     Object(TreeObject, BodyOf(<< <<T100644, <<"c">>, H1>>, <<<<"8">>, <<"a">>, H2>> >>), HashOf("w")),
     Object(BlobObject, <<"d", "a", "t", "a">>, H3),
     Object(CommitObject, <<"c">>, HashOf("k"))}

Call(op, arg, obj) == [op |-> op, arg |-> arg, obj |-> obj]
NoCall == Call("none", <<>>, NoObject)
Ret(err, e, file, gets, opened) ==
    [err |-> err, entry |-> e, file |-> file, gets |-> gets, opened |-> opened]
NoRet == Ret(Nil, NoEntry, NoFile, <<>>, FALSE)

----------------------------------------------------------------------------
(* The codec applied to an input *)

CodecInit ==
    /\ cIn \in EntryInputs \cup BodyInputs \cup MalformedInputs \cup ModeInputs
    /\ cOp = "init"
    /\ cOut = NoOut
    /\ tree = NewTree /\ store = NoStore /\ call = NoCall /\ ret = NoRet
    /\ iterIdle

\* t.Encode(o) on a tree holding the entries, then Decode of o into a new tree
EncodeDecode ==
    /\ cOp = "init" /\ cIn.kind = "entries"
    /\ \E e \in {Encode([NewTree EXCEPT !.Entries = cIn.entries], NewObject, 0)} :
       \E d \in {Decode(NewTree, e.o)} :
          cOut' = [err |-> IF e.err # Nil THEN e.err ELSE d.err,
                   entries |-> d.t.Entries, body |-> e.o.Body, m |-> Mode(0, 0)]
    /\ cOp' = "encdec"
    /\ UNCHANGED <<cIn, treeVars, iterVars>>

\* Decode of a tree object holding the body, then Encode of the tree decoded
DecodeEncode ==
    /\ cOp = "init" /\ cIn.kind = "body"
    /\ \E d \in {Decode(NewTree, Object(TreeObject, cIn.bytes, HashOf("t")))} :
       \E e \in {Encode(d.t, NewObject, 0)} :
          cOut' = [err |-> d.err, entries |-> d.t.Entries, body |-> e.o.Body,
                   m |-> Mode(0, 0)]
    /\ cOp' = "decenc"
    /\ UNCHANGED <<cIn, treeVars, iterVars>>

ClassifyMode ==
    /\ cOp = "init" /\ cIn.kind = "mode"
    /\ \E r \in {decodeFileMode(cIn.bytes)} :
          cOut' = [err |-> r.err, entries |-> <<>>, body |-> <<>>, m |-> r.m]
    /\ cOp' = "mode"
    /\ UNCHANGED <<cIn, treeVars, iterVars>>

CodecNext == EncodeDecode \/ DecodeEncode \/ ClassifyMode

SpecCodec == CodecInit /\ [][CodecNext]_vars

----------------------------------------------------------------------------
(* Lookups on one receiver tree over one store *)

codecIdle == cIn = Input("mode", <<>>, "none") /\ cOp = "idle" /\ cOut = NoOut

Init ==
    /\ codecIdle
    /\ store \in Stores
    /\ \E recs \in RootRecords : tree = Decode(NewTree, RootObject(recs)).t
    /\ call = NoCall
    /\ ret = NoRet
    /\ iterIdle

\* A path call (findEntry, File) ends a run of this specification: it leaves
\* the receiver as a lookup by name leaves it (the index built), so every
\* state of the receiver a path call can start from is reached by lookups
\* by name alone.
CallOpen == call.op \notin {"findEntry", "File"}

CallEntry ==
    /\ CallOpen
    /\ \E name \in LookupNames :
        \E r \in {entry(tree, name)} :
           /\ tree' = r.t
           /\ call' = Call("entry", name, NoObject)
           /\ ret' = Ret(r.err, r.entry, NoFile, <<>>, FALSE)
           /\ UNCHANGED <<store, codecVars, iterVars>>

CallFindEntry ==
    /\ CallOpen
    /\ \E path \in Paths :
        \E r \in {findEntry(tree, path, store)} :
           /\ tree' = r.t
           /\ call' = Call("findEntry", path, NoObject)
           /\ ret' = Ret(r.err, r.entry, NoFile, r.gets, FALSE)
           /\ UNCHANGED <<store, codecVars, iterVars>>

CallFile ==
    /\ CallOpen
    /\ \E path \in Paths :
        \E r \in {File(tree, path, store)} :
           /\ tree' = r.t
           /\ call' = Call("File", path, NoObject)
           /\ ret' = Ret(r.err, NoEntry, r.file, r.gets, FALSE)
           /\ UNCHANGED <<store, codecVars, iterVars>>

Next == CallEntry \/ CallFindEntry \/ CallFile

Spec == Init /\ [][Next]_vars

----------------------------------------------------------------------------
(* Decodes and lookups by name on one Tree instance *)

TreeInit ==
    /\ codecIdle
    /\ store = NoStore
    /\ tree = NewTree
    /\ call = NoCall
    /\ ret = NoRet
    /\ iterIdle

CallDecode ==
    \E o \in DecodeObjects :
        \E r \in {Decode(tree, o)} :
           /\ tree' = r.t
           /\ call' = Call("Decode", <<>>, o)
           /\ ret' = Ret(r.err, NoEntry, NoFile, <<>>, r.opened)
           /\ UNCHANGED <<store, codecVars, iterVars>>

TreeNext == CallDecode \/ CallEntry

SpecTree == TreeInit /\ [][TreeNext]_vars

----------------------------------------------------------------------------
(* Next and ForEach on one iterator over one store *)

CallbackResults == {Nil, ErrStop, ErrCallback}

\* the stored hashes the tree stored under h refers to
Refs(st, h) ==
    IF st[h] = TreeObject
    THEN {TreeRecords(h)[i][3] : i \in 1..Len(TreeRecords(h))} \cap StoreHashes
    ELSE {}
RefsOfAll(st, S) == S \cup UNION {Refs(st, h) : h \in S}
\* A hash is the hash of the object's content, so no tree refers to itself
\* through the trees it refers to: the stores a walk can meet are acyclic.
Acyclic(st) ==
    \A h \in StoreHashes : h \notin RefsOfAll(st, RefsOfAll(st, Refs(st, h)))
WalkStores == {st \in Stores : Acyclic(st)}

IterInit ==
    /\ codecIdle
    /\ store \in WalkStores
    /\ tree = NewTree /\ call = NoCall /\ ret = NoRet
    /\ \E recs \in RootRecords, kind \in {"file", "tree"} :
          it = NewIter(kind, Decode(NewTree, RootObject(recs)).t)
    /\ fe = NoForEach

\* the iterator ForEach draws from: FileIter.ForEach makes one of its own on
\* the receiver's root, TreeIter.ForEach uses the receiver
ForEachWalker == IF it.kind = "file" THEN fe.priv ELSE it.w

\* ForEach returns e, its iterator's walker being w: the deferred Close runs
ForEachReturn(w, e) ==
    [fe |-> [fe EXCEPT !.pc = "done", !.err = e,
                       !.priv = IF it.kind = "file" THEN WalkerClose(w) ELSE @,
                       !.privCloses = IF it.kind = "file" THEN @ + 1 ELSE @],
     it |-> IF it.kind = "file" THEN it
            ELSE [it EXCEPT !.w = WalkerClose(w), !.closes = @ + 1]]

\* ForEach goes on, its iterator's walker being w
ForEachGoOn(f, w) ==
    [fe |-> [f EXCEPT !.priv = IF it.kind = "file" THEN w ELSE @],
     it |-> IF it.kind = "file" THEN it ELSE [it EXCEPT !.w = w]]

\* iter.Next() called by the program on the receiver
CallNext ==
    /\ fe.pc \in {"idle", "done"}
    /\ \E r \in {IterNextOf(it.kind, it.w, store)} :
          it' = [it EXCEPT !.w = r.w, !.err = r.err,
                           !.got = IF r.err = EOF /\ r.w.stack = <<>> THEN @
                                   ELSE Append(@, [item |-> r.item, err |-> r.err])]
    /\ UNCHANGED <<fe, treeVars, codecVars>>

\* iter.ForEach(cb) is called
ForEachBegin ==
    /\ fe.pc \in {"idle", "done"}
    /\ fe.runs < MaxRuns
    /\ fe' = [NoForEach EXCEPT
                !.pc = "next", !.runs = fe.runs + 1,
                !.priv = ForEachPrivate(it),
                !.prevCalls = fe.calls, !.prevRets = fe.cbrets]
    /\ UNCHANGED <<it, treeVars, codecVars>>

\* the loop of ForEach calls Next
ForEachNext ==
    /\ fe.pc = "next"
    /\ \E r \in {IterNextOf(it.kind, ForEachWalker, store)} :
       \E n \in {IF r.err # Nil
                 THEN ForEachReturn(r.w, ForEachAfterNext(r.err))
                 ELSE ForEachGoOn([fe EXCEPT !.pc = "cb", !.item = r.item,
                                             !.produced = Append(@, r.item)], r.w)} :
          /\ fe' = [n.fe EXCEPT !.nexterr = r.err]
          /\ it' = n.it
    /\ UNCHANGED <<treeVars, codecVars>>

\* the loop of ForEach calls cb on the item Next returned
ForEachCallback ==
    /\ fe.pc = "cb"
    /\ \E cbr \in CallbackResults :
       \E a \in {ForEachAfterCallback(cbr)} :
       \E n \in {IF a.done THEN ForEachReturn(ForEachWalker, a.err)
                 ELSE ForEachGoOn([fe EXCEPT !.pc = "next"], ForEachWalker)} :
          /\ fe' = [n.fe EXCEPT !.calls = Append(@, fe.item),
                                !.cbrets = Append(@, cbr), !.item = NoItem]
          /\ it' = n.it
    /\ UNCHANGED <<treeVars, codecVars>>

IterNext == CallNext \/ ForEachBegin \/ ForEachNext \/ ForEachCallback

SpecIter == IterInit /\ [][IterNext]_vars

----------------------------------------------------------------------------
(* Claims about the codec, checked under SpecCodec *)

\* C4: encoding a tree of well-formed entries (regular, executable,
\* directory, symlink) and decoding the object written succeeds and yields
\* the same entry list: same length, order, names, modes and hashes.
C4_RoundTripEntries ==
    cOp = "encdec" => cOut.err = Nil /\ cOut.entries = cIn.entries

\* C5: decoding a well-formed tree body (records with modes 40000 and 120000
\* included) and encoding the tree decoded writes the very bytes decoded.
C5_RoundTripBytes ==
    (cOp = "decenc" /\ cIn.bad = "none") => cOut.body = cIn.bytes

\* C6: Decode of a tree object with a non-empty body holding a malformed
\* record (mode text without its space, name without its NUL, hash shorter
\* than the hash width) returns an error, never success.
C6_MalformedFails ==
    (cOp = "decenc" /\ cIn.bad \in {"mode", "name", "hash"}) => cOut.err # Nil

\* the octal text without its leading zeros: the text of its numeric value
RECURSIVE Canon(_)
Canon(s) == IF Len(s) > 1 /\ Head(s) = "0" THEN Canon(Tail(s)) ELSE s

IsOctalText(s) == s # <<>> /\ \A i \in 1..Len(s) : s[i] \in OctDigit

\* C7: for every octal mode text decodeFileMode accepts, the mode returned
\* has the directory flag iff the value is 040000, the symlink flag iff the
\* value is 0120000, and for any other value has neither flag and exactly
\* the bits of the value parsed.
C7_ModeClassification ==
    (cOp = "mode" /\ IsOctalText(cIn.bytes) /\ cOut.err = Nil) =>
        /\ IsDir(cOut.m) <=> Canon(cIn.bytes) = T40000
        /\ IsSymlink(cOut.m) <=> Canon(cIn.bytes) = T120000
        /\ Canon(cIn.bytes) \notin {T40000, T120000} =>
               FormatOctal(cOut.m) = Canon(cIn.bytes)

----------------------------------------------------------------------------
(* Claims about the resolver, checked under Spec *)

\* the entries of the tree stored under h, as its records state them
StoredEntries(h) ==
    [i \in 1..Len(TreeRecords(h)) |->
        TreeEntry(TreeRecords(h)[i][2],
                  IF TreeRecords(h)[i][1] = T40000 THEN DirMode
                  ELSE IF TreeRecords(h)[i][1] = T120000 THEN SymlinkMode
                  ELSE IF TreeRecords(h)[i][1] = T100755 THEN ExecutableMode
                  ELSE RegularMode,
                  TreeRecords(h)[i][3])]

\* what is stored under h: a kind of object, "missing" or "ioerr"
KindAt(st, h) == IF h \in DOMAIN st THEN st[h] ELSE "missing"

HasName(es, n) == \E i \in 1..Len(es) : es[i].Name = n
\* the entry a name stands for: the last one of that name
Named(es, n) ==
    es[CHOOSE i \in 1..Len(es) :
          es[i].Name = n /\ \A j \in (i + 1)..Len(es) : es[j].Name # n]

\* the path's segments, from the entries es on: every segment but the last
\* names an entry stored as a tree, the last one an entry stored as a blob
RECURSIVE Resolves(_, _, _)
Resolves(es, segs, st) ==
    IF ~HasName(es, Head(segs)) THEN [ok |-> FALSE, leaf |-> NoEntry]
    ELSE IF Len(segs) = 1
    THEN [ok |-> KindAt(st, Named(es, Head(segs)).Hash) = BlobObject,
          leaf |-> Named(es, Head(segs))]
    ELSE IF KindAt(st, Named(es, Head(segs)).Hash) # TreeObject
    THEN [ok |-> FALSE, leaf |-> NoEntry]
    ELSE Resolves(StoredEntries(Named(es, Head(segs)).Hash), Tail(segs), st)

\* C1: File returns ErrFileNotFound and no File when findEntry fails, when
\* the store reports the leaf entry's object not found, and when the object
\* under the leaf entry's hash is a tree.
C1_FileNotFound ==
    call.op = "File" =>
        \A f \in {findEntry(tree, call.arg, store)} :
            \A g \in {Get(store, f.entry.Hash)} :
                (\/ f.err # Nil
                 \/ g.err = ErrObjectNotFound
                 \/ (g.err = Nil /\ g.obj.Type = TreeObject))
                => (ret.err = ErrFileNotFound /\ ret.file = NoFile)

\* a File call on a path whose leaf entry is found and stored as a tree
C1_Witness ==
    /\ call.op = "File"
    /\ Len(Split(call.arg)) = 2
    /\ findEntry(tree, call.arg, store).err = Nil
    /\ Get(store, findEntry(tree, call.arg, store).entry.Hash).obj.Type = TreeObject
    /\ ret.err = ErrFileNotFound

\* C2: File succeeds exactly when every segment but the last names an entry
\* stored as a tree and the last names an entry, in the tree reached, stored
\* as a blob; the File then has the full path as Name, the leaf entry's
\* mode, and the stored blob's bytes.
C2_FileSucceedsExactly ==
    call.op = "File" =>
        \A x \in {Resolves(tree.Entries, Split(call.arg), store)} :
            /\ (ret.err = Nil) <=> x.ok
            /\ ret.err # Nil => ret.file = NoFile
            /\ ret.err = Nil =>
                  /\ ~ret.file.nil
                  /\ ret.file.Name = call.arg
                  /\ ret.file.Mode = x.leaf.Mode
                  /\ ret.file.Blob.Hash = x.leaf.Hash
                  /\ ret.file.Blob.Body = BlobBytes(x.leaf.Hash)

\* a File call that succeeded through two subtrees
C2_Witness ==
    call.op = "File" /\ ret.err = Nil /\ Len(Split(call.arg)) = 3 /\ ~ret.file.nil

\* resolving the segments from the entries es on meets an entry whose Get
\* fails with an I/O error: at a segment before the last, or (leafToo) at
\* the last
RECURSIVE HitsIOError(_, _, _, _)
HitsIOError(es, segs, st, leafToo) ==
    IF ~HasName(es, Head(segs)) THEN FALSE
    ELSE IF Len(segs) = 1
    THEN leafToo /\ KindAt(st, Named(es, Head(segs)).Hash) = "ioerr"
    ELSE IF KindAt(st, Named(es, Head(segs)).Hash) = "ioerr" THEN TRUE
    ELSE IF KindAt(st, Named(es, Head(segs)).Hash) # TreeObject THEN FALSE
    ELSE HitsIOError(StoredEntries(Named(es, Head(segs)).Hash), Tail(segs), st, leafToo)

\* C3: a Get error other than not-found met while resolving a segment,
\* intermediate or leaf, is what findEntry and File return, unchanged.
C3_StorageErrorUnchanged ==
    /\ (call.op = "findEntry" /\ HitsIOError(tree.Entries, Split(call.arg), store, FALSE))
          => ret.err = ErrIO
    /\ (call.op = "File" /\ HitsIOError(tree.Entries, Split(call.arg), store, TRUE))
          => ret.err = ErrIO

----------------------------------------------------------------------------
(* Claims about Decode on a Tree instance, checked under SpecTree *)

\* C8: after a successful Decode of a tree object of size zero, whatever
\* the instance held before, its entry list is empty and every lookup by
\* name fails with entry-not-found.
C8_EmptyDecodeEmptiesTree ==
    (call.op = "Decode" /\ call.obj.Type = TreeObject /\ call.obj.Size = 0
        /\ ret.err = Nil) =>
        /\ tree.Entries = <<>>
        /\ \A n \in LookupNames : entry(tree, n).err = errEntryNotFound

\* C9: Decode of an object that is not a tree returns ErrUnsupportedObject,
\* does not open the object's reader, and leaves the Tree's Hash, entry list
\* and index as they were.
C9_NonTreeRejected ==
    [][(call'.op = "Decode" /\ call'.obj.Type # TreeObject) =>
          (ret'.err = ErrUnsupportedObject /\ ~ret'.opened /\ tree' = tree)]_vars

\* a non-tree object refused by a Tree that holds entries and a built index
C9_Witness ==
    /\ call.op = "Decode" /\ call.obj.Type = BlobObject
    /\ ret.err = ErrUnsupportedObject
    /\ tree.Entries # <<>> /\ tree.m.built /\ tree.Hash # call.obj.Hash

----------------------------------------------------------------------------
(* Claims about ForEach, checked under SpecIter *)

Last(q) == q[Len(q)]
\* the callback returned nil on every call but, at most, the last
OnlyLastEnds(q) == \A i \in 1..(Len(q) - 1) : q[i] = Nil

\* the callback has been called once on each item Next produced, in the
\* order Next produced them, the item Next returned last waiting for its call
CalledInOrder ==
    /\ fe.pc \in {"next", "done"} => fe.calls = fe.produced
    /\ fe.pc = "cb" => fe.produced = Append(fe.calls, fe.item)
    /\ Len(fe.cbrets) = Len(fe.calls)
    /\ OnlyLastEnds(fe.cbrets)
    /\ fe.pc \in {"next", "cb"} => \A i \in 1..Len(fe.cbrets) : fe.cbrets[i] = Nil

\* the ways ForEach ends
EndsExhausted ==
    fe.nexterr = EOF /\ fe.err = Nil /\ \A i \in 1..Len(fe.cbrets) : fe.cbrets[i] = Nil
EndsStopped ==
    fe.nexterr = Nil /\ fe.cbrets # <<>> /\ Last(fe.cbrets) = ErrStop /\ fe.err = Nil
EndsCallbackError ==
    /\ fe.nexterr = Nil /\ fe.cbrets # <<>>
    /\ Last(fe.cbrets) \notin {Nil, ErrStop} /\ fe.err = Last(fe.cbrets)
EndsNextError ==
    /\ fe.nexterr \notin {Nil, EOF} /\ fe.err = fe.nexterr
    /\ \A i \in 1..Len(fe.cbrets) : fe.cbrets[i] = Nil

Count(b) == IF b THEN 1 ELSE 0

\* C10 as stated: FileIter.ForEach and TreeIter.ForEach call the callback
\* once per produced item in the order Next produces them, and end in exactly
\* one of three ways: Next returned io.EOF and ForEach returns nil; the
\* callback returned ErrStop and ForEach returns nil without a further call;
\* the callback returned another error and ForEach returns it without a
\* further call.
C10_EndsInThreeWays ==
    /\ CalledInOrder
    /\ fe.pc = "done" =>
          Count(EndsExhausted) + Count(EndsStopped) + Count(EndsCallbackError) = 1

\* C10 amended: as above, with a fourth way to end: Next returned an error
\* other than io.EOF, and ForEach returns that error without calling the
\* callback again.  A callback that returns ErrStop on its first call has
\* been called exactly once.
C10_EndsInFourWays ==
    /\ CalledInOrder
    /\ fe.pc = "done" =>
          Count(EndsExhausted) + Count(EndsStopped) + Count(EndsCallbackError)
             + Count(EndsNextError) = 1
    /\ (fe.pc = "done" /\ fe.cbrets # <<>> /\ fe.cbrets[1] = ErrStop)
          => Len(fe.calls) = 1 /\ fe.err = Nil

\* a ForEach over a root Next produces two items or more from has returned
\* nil after its callback returned ErrStop on the first call
C10_Witness ==
    /\ fe.pc = "done" /\ fe.cbrets = <<ErrStop>> /\ Len(fe.calls) = 1
    /\ fe.err = Nil
    /\ \E r \in {IterNextOf(it.kind, NewTreeWalker(it.w.t), store)} :
          r.err = Nil /\ r.item = fe.calls[1]
          /\ IterNextOf(it.kind, r.w, store).err = Nil

\* C11: on every exit path of FileIter.ForEach and TreeIter.ForEach the
\* walker of the iterator ForEach was called on is closed exactly once
\* before ForEach returns: after each return the receiver is closed, by one
\* Close for each ForEach call made on it.
C11_ReceiverClosedOnce ==
    fe.pc = "done" => (it.closes = fe.runs /\ it.w.stack = <<>>)

----------------------------------------------------------------------------
(* Claims about the order of iteration, checked under SpecIter *)

\* The pre-order depth-first sequence of the entries es under the path base:
\* each entry whose object the store holds, followed by the sequence of its
\* own entries when the object is a tree, then the entries after it.  An
\* entry whose object cannot be fetched or decoded stands in the sequence as
\* the error.
Visit(name, e, obj, err) == [name |-> name, entry |-> e, obj |-> obj, err |-> err]
RECURSIVE PreOrder(_, _, _)
PreOrderUnder(e, o, base, st) ==
    IF o.Type = TreeObject
    THEN Only({IF d.err # Nil THEN <<Visit(<<>>, NoEntry, NoWalkObj, d.err)>>
               ELSE <<Visit(JoinPath(Append(base, e.Name)), e,
                            WalkObj(TreeObject, NoBlob, d.t), Nil)>>
                    \o PreOrder(d.t.Entries, Append(base, e.Name), st) :
               d \in {Decode(NewTree, o)}})
    ELSE IF o.Type = BlobObject
    THEN <<Visit(JoinPath(Append(base, e.Name)), e,
                 WalkObj(BlobObject, BlobDecode(o), NewTree), Nil)>>
    ELSE <<Visit(JoinPath(Append(base, e.Name)), e, WalkObj(o.Type, NoBlob, NewTree), Nil)>>

PreOrderOf(e, base, st) ==
    Only({IF g.err = ErrObjectNotFound THEN <<>>
          ELSE IF g.err # Nil THEN <<Visit(<<>>, NoEntry, NoWalkObj, g.err)>>
          ELSE PreOrderUnder(e, g.obj, base, st) :
          g \in {Get(st, e.Hash)}})

PreOrder(es, base, st) ==
    IF es = <<>> THEN <<>>
    ELSE Only({h \o PreOrder(Tail(es), base, st) : h \in {PreOrderOf(Head(es), base, st)}})

\* the visits of kind k and the errors among vs, as the results of Next
RECURSIVE OfKind(_, _)
OfKind(vs, k) ==
    IF vs = <<>> THEN <<>>
    ELSE Only({
           (IF v.err # Nil THEN <<[item |-> NoItem, err |-> v.err]>>
            ELSE IF v.obj.kind # k THEN <<>>
            ELSE IF k = BlobObject
            THEN <<[item |-> Item([Name |-> v.name, Mode |-> v.entry.Mode,
                                   Blob |-> v.obj.blob, nil |-> FALSE], NewTree),
                    err |-> Nil]>>
            ELSE <<[item |-> Item(NoFile, v.obj.tree), err |-> Nil]>>)
           \o OfKind(Tail(vs), k) :
           v \in {Head(vs)}})

\* what the calls of Next on a new iterator of it's kind on it's root return
\* before io.EOF
Expected ==
    OfKind(PreOrder(it.w.t.Entries, <<>>, store),
           IF it.kind = "file" THEN BlobObject ELSE TreeObject)

IsPrefix(p, q) == Len(p) <= Len(q) /\ SubSeq(q, 1, Len(p)) = p

\* C12: the results of repeated Next on a FileIter (a TreeIter) are exactly
\* the blob-kind (tree-kind) visits of the pre-order depth-first sequence of
\* the root over the store, in that order, each File named by its full
\* slash-joined path; the walker has nothing left when they are all returned.
\* (An entry that cannot be fetched or decoded stands in both sequences as
\* the error Next returns for it.)
C12_NextIsPreOrder ==
    fe.runs = 0 =>
       \E x \in {Expected} :
          /\ IsPrefix(it.got, x)
          /\ (it.err = EOF /\ it.w.stack = <<>>) => it.got = x
          /\ (it.got # <<>> /\ it.w.stack # <<>>) => it.err = Last(it.got).err

\* a FileIter has returned a file of the root, then two files of a
\* directory, and then io.EOF
C12_Witness ==
    /\ it.kind = "file" /\ fe.runs = 0 /\ it.err = EOF
    /\ Len(it.got) = 3
    /\ \A i \in 1..3 : it.got[i].err = Nil
    /\ Len(it.got[1].item.file.Name) = 1
    /\ \A i \in 2..3 : Len(it.got[i].item.file.Name) = 3
                        /\ it.got[i].item.file.Name[2] = SLASH

----------------------------------------------------------------------------
(* File.Contents and File.Lines *)

LF == "LF"
CR == "CR"

\* File.Contents; rerr is the error of the blob's Reader(), nil when it opens
Contents(f, rerr) ==
    IF rerr # Nil THEN [content |-> <<>>, err |-> rerr]
    ELSE [content |-> f.Blob.Body, err |-> Nil]

\* strings.Split(s, sep) for a separator of one byte
RECURSIVE SplitOn(_, _)
SplitOn(s, sep) ==
    Only({IF i = 0 THEN <<s>>
          ELSE <<SubSeq(s, 1, i - 1)>> \o SplitOn(SubSeq(s, i + 1, Len(s)), sep) :
          i \in {IndexOf(s, sep)}})

\* LinesOf returning every split, the empty last one too
LinesOf_KeepLast(c) ==
    IF c.err # Nil THEN [lines |-> <<>>, err |-> c.err]
    ELSE [lines |-> SplitOn(c.content, LF), err |-> Nil]

\* what Lines returns once Contents has returned c
LinesOf(c) ==
    IF c.err # Nil THEN [lines |-> <<>>, err |-> c.err]
    ELSE Only({IF splits[Len(splits)] = <<>>
               THEN [lines |-> SubSeq(splits, 1, Len(splits) - 1), err |-> Nil]
               ELSE [lines |-> splits, err |-> Nil] :
               splits \in {SplitOn(c.content, LF)}})

\* File.Lines
Lines(f, rerr) == Only({LinesOf(c) : c \in {Contents(f, rerr)}})

ContentBytes == {"a", "b", LF, CR}
ContentInputs ==
    {Input("content", c, bad) : c \in SeqsUpTo(ContentBytes, MaxContentLen),
                                bad \in {"none", "reader"}}

LinesInit ==
    /\ cIn \in ContentInputs
    /\ cOp = "init"
    /\ cOut = NoOut
    /\ tree = NewTree /\ store = NoStore /\ call = NoCall /\ ret = NoRet
    /\ iterIdle

\* f.Lines() on a file whose blob holds the content
CallLines ==
    /\ cOp = "init" /\ cIn.kind = "content"
    /\ \E r \in {Lines(newFile(<<"a">>, RegularMode, [Hash |-> H1, Body |-> cIn.bytes]),
                       IF cIn.bad = "reader" THEN ErrIO ELSE Nil)} :
          cOut' = [err |-> r.err, entries |-> <<>>, body |-> <<>>, m |-> Mode(0, 0),
                   lines |-> r.lines]
    /\ cOp' = "lines"
    /\ UNCHANGED <<cIn, treeVars, iterVars>>

LinesNext == CallLines

SpecLines == LinesInit /\ [][LinesNext]_vars

\* the lines, each followed by a newline
WithNewlines(ls) == Flatten([i \in 1..Len(ls) |-> Append(ls[i], LF)])
EndsWithNewline(c) == c # <<>> /\ c[Len(c)] = LF

\* C14: File.Lines returns the content split into lines without their
\* newlines: no line holds a newline; the lines, each followed by a newline,
\* give back a content that ends with a newline, and give back a content
\* that does not, followed by one newline; the empty content has no lines
\* (so "a\nb\n" and "a\nb" both give [a, b]).
C14_LinesOfContent ==
    (cOp = "lines" /\ cIn.bad = "none") =>
        /\ cOut.err = Nil
        /\ \A i \in 1..Len(cOut.lines) : IndexOf(cOut.lines[i], LF) = 0
        /\ EndsWithNewline(cIn.bytes) => WithNewlines(cOut.lines) = cIn.bytes
        /\ (cIn.bytes # <<>> /\ ~EndsWithNewline(cIn.bytes))
              => WithNewlines(cOut.lines) = Append(cIn.bytes, LF)
        /\ cIn.bytes = <<>> => cOut.lines = <<>>

\* Lines has returned [a, b] for the content "a\nb\n"
C14_Witness ==
    /\ cOp = "lines" /\ cIn.bad = "none"
    /\ cIn.bytes = <<"a", LF, "b", LF>>
    /\ cOut.lines = << <<"a">>, <<"b">> >>

----------------------------------------------------------------------------
(* Claims about findEntry, checked under Spec *)

\* How a path resolves from the entries es on, stated on the stored trees:
\* "dir" when a segment before the last is absent, or names an entry whose
\* object is missing or is no tree; "io" when fetching that object fails
\* otherwise; else the lookup of the last segment, "ok" with the entry or
\* "entry" when the name is absent.  hashes are those of the segments passed.
RECURSIVE Resolution(_, _, _, _)
Resolution(es, segs, st, hashes) ==
    IF Len(segs) = 1
    THEN IF HasName(es, Head(segs))
         THEN [class |-> "ok", entry |-> Named(es, Head(segs)), hashes |-> hashes]
         ELSE [class |-> "entry", entry |-> NoEntry, hashes |-> hashes]
    ELSE IF ~HasName(es, Head(segs))
    THEN [class |-> "dir", entry |-> NoEntry, hashes |-> hashes]
    ELSE Only({
           IF KindAt(st, h) = "ioerr"
           THEN [class |-> "io", entry |-> NoEntry, hashes |-> Append(hashes, h)]
           ELSE IF KindAt(st, h) # TreeObject
           THEN [class |-> "dir", entry |-> NoEntry, hashes |-> Append(hashes, h)]
           ELSE Resolution(StoredEntries(h), Tail(segs), st, Append(hashes, h)) :
           h \in {Named(es, Head(segs)).Hash}})

\* findEntry's return when the path comes to the lookup of its last segment
LastSegmentLookedUp(r, n) ==
    /\ r.class = "ok" => ret.err = Nil /\ ret.entry = r.entry
    /\ r.class = "entry" => ret.err = errEntryNotFound
    /\ r.class \in {"ok", "entry"} => Len(ret.gets) = n - 1 /\ ret.gets = r.hashes

\* C15 as stated: findEntry returns the directory-not-found error when one
\* of the first n-1 segments is absent from its tree, or names an entry whose
\* object is missing or is not a tree; otherwise it returns the lookup of the
\* last segment in the tree reached (entry-not-found when absent), after
\* exactly n-1 Gets, the last segment's object never fetched.
C15_DirNotFoundOrLookup ==
    call.op = "findEntry" =>
       \A n \in {Len(Split(call.arg))} :
       \A r \in {Resolution(tree.Entries, Split(call.arg), store, <<>>)} :
          /\ r.class = "dir" <=> ret.err = errDirNotFound
          /\ r.class # "dir" => ret.err \in {Nil, errEntryNotFound}
          /\ LastSegmentLookedUp(r, n)

\* C15 amended: as above, and when the Get of the object of one of the first
\* n-1 segments fails with an error other than not-found, findEntry returns
\* that error unchanged.
C15_DirNotFoundErrorOrLookup ==
    call.op = "findEntry" =>
       \A n \in {Len(Split(call.arg))} :
       \A r \in {Resolution(tree.Entries, Split(call.arg), store, <<>>)} :
          /\ r.class = "dir" <=> ret.err = errDirNotFound
          /\ r.class = "io" <=> ret.err = ErrIO
          /\ LastSegmentLookedUp(r, n)

\* findEntry has resolved a path of three segments after two Gets
C15_Witness ==
    /\ call.op = "findEntry" /\ Len(Split(call.arg)) = 3
    /\ ret.err = Nil /\ Len(ret.gets) = 2
    /\ ret.entry.Name = Split(call.arg)[3]

----------------------------------------------------------------------------
(* Claims about the index of a Tree instance, checked under SpecTree *)

NamesOf(es) == {es[i].Name : i \in 1..Len(es)}

\* a built index holds the names of the entry list, each with the last
\* entry of that name
IndexMatchesEntries(t) ==
    t.m.built =>
       /\ DOMAIN t.m.idx = NamesOf(t.Entries)
       /\ \A n \in NamesOf(t.Entries) : t.Entries[t.m.idx[n]] = Named(t.Entries, n)

\* a lookup has returned the last entry of the name, or entry-not-found
LookupMatchesEntries ==
    call.op = "entry" =>
       IF HasName(tree.Entries, call.arg)
       THEN ret.err = Nil /\ ret.entry = Named(tree.Entries, call.arg)
       ELSE ret.err = errEntryNotFound

\* a lookup builds the index only when there is none and else leaves it as
\* it is; a Decode leaves the index as it is together with the entry list,
\* or replaces the entry list and removes the index
IndexBuiltOnce ==
    /\ call'.op = "entry" =>
          /\ tree'.m.built
          /\ tree.m.built => tree'.m = tree.m
          /\ tree'.Entries = tree.Entries
    /\ call'.op = "Decode" =>
          \/ tree'.m = tree.m /\ tree'.Entries = tree.Entries
          \/ ~tree'.m.built

\* C16: after any sequence of Decode calls and lookups by name on one Tree,
\* a lookup of n returns the last entry named n of the current entry list,
\* or entry-not-found when there is none; an index that is present has the
\* names of the current entry list as its keys; the index is built at most
\* once between two replacements of the entry list.
C16_IndexConsistent ==
    /\ [](IndexMatchesEntries(tree) /\ LookupMatchesEntries)
    /\ [][IndexBuiltOnce]_vars

\* a lookup of a name that two entries of the tree have has returned the
\* second of them
C16_Witness ==
    /\ call.op = "entry" /\ ret.err = Nil
    /\ Len(tree.Entries) = 2
    /\ tree.Entries[1].Name = call.arg /\ tree.Entries[2].Name = call.arg
    /\ tree.Entries[1] # tree.Entries[2]
    /\ ret.entry = tree.Entries[2]

----------------------------------------------------------------------------
(* Claims about what a lookup changes, checked under Spec *)

\* C17: entry, findEntry (and the dir calls it makes) and File, whether they
\* succeed or fail, leave the receiver's entry list and Hash as they were;
\* of the receiver they change the index alone, from absent to built.
C17_LookupsReadOnly ==
    [][call'.op \in {"entry", "findEntry", "File"} =>
          /\ tree'.Entries = tree.Entries
          /\ tree'.Hash = tree.Hash
          /\ \/ tree'.m = tree.m
             \/ ~tree.m.built /\ tree'.m.built]_vars

\* File has found a file through a directory, and the receiver is the
\* decoded root with its index built
C17_Witness ==
    /\ call.op = "File" /\ ret.err = Nil /\ Len(ret.gets) >= 2
    /\ tree.m.built
    /\ \E recs \in RootRecords :
          /\ tree.Entries = Decode(NewTree, RootObject(recs)).t.Entries
          /\ tree.Hash = RootHash

----------------------------------------------------------------------------
(* Tree.Encode into an object, with writes that fail *)

\* the object handed to Encode: a new one, or one that held a blob before
EncodeTargets == {NewObject, [NewObject EXCEPT !.Type = BlobObject, !.Size = 99]}

\* the entries to encode, the target, and which write fails: -1 for Writer()
\* itself, 0 for none, k for write number k (three writes for each entry)
EncodeInputs ==
    {[kind |-> "encode", entries |-> es, bytes |-> <<>>, bad |-> "none",
      target |-> o, failAt |-> k] :
     es \in SeqsUpTo(WellFormedEntries, MaxEntries), o \in EncodeTargets,
     k \in (-1)..(3 * MaxEntries)}

EncodeInit ==
    /\ cIn \in EncodeInputs
    /\ cOp = "init"
    /\ cOut = NoOut
    /\ tree = NewTree /\ store = NoStore /\ call = NoCall /\ ret = NoRet
    /\ iterIdle

\* t.Encode(o) on a tree holding the entries
CallEncode ==
    /\ cOp = "init" /\ cIn.kind = "encode"
    /\ \E e \in {Encode([NewTree EXCEPT !.Entries = cIn.entries], cIn.target, cIn.failAt)} :
          cOut' = [err |-> e.err, entries |-> <<>>, body |-> e.o.Body, m |-> Mode(0, 0),
                   size |-> e.o.Size, type |-> e.o.Type]
    /\ cOp' = "encode"
    /\ UNCHANGED <<cIn, treeVars, iterVars>>

EncodeNext == CallEncode

SpecEncode == EncodeInit /\ [][EncodeNext]_vars

\* len(octal mode text) + 1 + len(name) + 1 + hash width, summed over es
RECURSIVE RecordBytes(_)
RecordBytes(es) ==
    IF es = <<>> THEN 0
    ELSE Len(FormatOctal(Head(es).Mode)) + 1 + Len(Head(es).Name) + 1 + HashWidth
         + RecordBytes(Tail(es))

\* Writer() fails, or one of the writes Encode makes does
WriteFails == cIn.failAt = -1 \/ cIn.failAt \in 1..(3 * Len(cIn.entries))

\* C18: when Encode returns nil the object's kind is tree and its size is the
\* number of bytes written, the sum over the entries of len(octal mode text)
\* + 1 + len(name) + 1 + hash width (0, and nothing written, for no
\* entries); when a write fails Encode returns the error and the object's
\* size is left as it was.
C18_EncodeSize ==
    cOp = "encode" =>
        /\ cOut.err = Nil <=> ~WriteFails
        /\ cOut.err = Nil =>
              /\ cOut.type = TreeObject
              /\ cOut.size = Len(cOut.body)
              /\ cOut.size = RecordBytes(cIn.entries)
              /\ cIn.entries = <<>> => cOut.size = 0 /\ cOut.body = <<>>
        /\ WriteFails => cOut.err = ErrIO /\ cOut.size = cIn.target.Size

\* Encode of two entries, one of them a directory, into an object that held
\* a blob of another size has returned nil
C18_Witness ==
    /\ cOp = "encode" /\ cOut.err = Nil
    /\ Len(cIn.entries) = 2 /\ cIn.entries[1].Mode = DirMode
    /\ cIn.target.Size = 99
    /\ cOut.size = RecordBytes(cIn.entries) /\ cOut.size # 99

----------------------------------------------------------------------------
(* Claims about FileIter.ForEach and its receiver, checked under SpecIter *)

\* the items of the results rs before the first error among them
RECURSIVE ItemsBeforeError(_)
ItemsBeforeError(rs) ==
    IF rs = <<>> \/ Head(rs).err # Nil THEN <<>>
    ELSE <<Head(rs).item>> \o ItemsBeforeError(Tail(rs))

\* ForEach on a FileIter offers the files of the root from the first one on,
\* whatever the receiver has returned; the receiver's Next goes on returning
\* the sequence of the root; two ForEach calls in a row whose callbacks
\* return the same give the callback the same files
FreshWalkEachTime ==
    it.kind = "file" =>
       \A x \in {Expected} :
          /\ IsPrefix(fe.produced, ItemsBeforeError(x))
          /\ IsPrefix(it.got, x)
          /\ (fe.runs >= 2 /\ fe.pc = "done" /\ fe.cbrets = fe.prevRets)
                => fe.calls = fe.prevCalls

\* a step of ForEach on a FileIter leaves the receiver as it is
ReceiverUntouched == (it.kind = "file" /\ fe' # fe) => it' = it

\* C19: FileIter.ForEach walks a new walker on the receiver's root: however
\* many Next calls were made on the receiver, the callback is offered the
\* files of the root from the first one on; two ForEach calls in a row over
\* an unchanged store offer the same sequence; ForEach does not advance the
\* receiver's walker nor change what the receiver's Next returns later.
C19_ForEachFreshWalker ==
    /\ []FreshWalkEachTime
    /\ [][ReceiverUntouched]_vars

\* after a Next on the receiver, two ForEach calls in a row have each
\* offered the callback all the files of the root, two or more, the first
\* being the file the receiver's Next had returned
C19_Witness ==
    /\ it.kind = "file" /\ it.got # <<>> /\ it.got[1].err = Nil
    /\ fe.runs = 2 /\ fe.pc = "done" /\ fe.nexterr = EOF
    /\ Len(fe.calls) >= 2 /\ fe.calls = fe.prevCalls
    /\ fe.calls[1] = it.got[1].item
    /\ it.w.stack # <<>>

----------------------------------------------------------------------------
(* A walk down a chain of nested directories *)

\* a store holding the directories of levels 2..n of a chain and, as the one
\* entry of the innermost, a blob
ChainStore(n) ==
    [h \in {ChainHash(k) : k \in 2..(n + 1)} |->
        IF h = ChainHash(n + 1) THEN BlobObject ELSE TreeObject]
\* the outermost directory of the chain, the root of the walk
ChainRoot == Decode(NewTree, StoredObject(ChainHash(1), TreeObject)).t

\* the number of directories of the chain, the root being the first
ChainLen == Cardinality(DOMAIN store)

DepthInit ==
    /\ codecIdle
    /\ store \in {ChainStore(maxTreeDepth), ChainStore(maxTreeDepth + 1)}
    /\ tree = NewTree /\ call = NoCall /\ ret = NoRet
    /\ it = NewIter("tree", ChainRoot)
    /\ fe = NoForEach

\* iter.Next() is called on the chain; of each result the history keeps the
\* error only
ChainNext ==
    /\ fe.pc = "idle"
    /\ \E r \in {TreeIterNext(it.w, store)} :
          it' = [it EXCEPT !.w = r.w, !.err = r.err,
                           !.got = IF r.err = EOF /\ r.w.stack = <<>> THEN @
                                   ELSE Append(@, [err |-> r.err])]
    /\ UNCHANGED <<fe, treeVars, codecVars>>

DepthNext == ChainNext

SpecDepth == DepthInit /\ [][DepthNext]_vars

\* the results Next has handed out that were errors
ErrorResults == {i \in 1..Len(it.got) : it.got[i].err # Nil}

\* the walk of the chain has ended: Next returned the end of the sequence
WalkEnded == it.err = EOF /\ it.w.stack = <<>>

\* C13: the stack of the walker never holds more than maxTreeDepth frames;
\* a chain of exactly maxTreeDepth directories is walked to its end without
\* an error; in a chain of maxTreeDepth + 1 directories the Next call that
\* would push frame maxTreeDepth + 1 returns ErrMaxTreeDepth with the stack
\* as it was, and no item is handed out after it
C13_DepthGuard ==
    /\ Len(it.w.stack) <= maxTreeDepth
    /\ ChainLen = maxTreeDepth =>
          /\ ErrorResults = {}
          /\ it.err \in {Nil, EOF}
          /\ WalkEnded => Len(it.got) = maxTreeDepth - 1
    /\ ChainLen = maxTreeDepth + 1 =>
          /\ ErrorResults \subseteq {maxTreeDepth}
          /\ Len(it.got) <= maxTreeDepth
          /\ Len(it.got) = maxTreeDepth =>
                it.got[maxTreeDepth].err = ErrMaxTreeDepth
          /\ it.err = ErrMaxTreeDepth => Len(it.w.stack) = maxTreeDepth
          /\ WalkEnded => ErrorResults = {maxTreeDepth}

\* the chain of maxTreeDepth + 1 directories has failed at the last push and
\* the Next call after the failure has ended the walk
C13_Witness ==
    /\ ChainLen = maxTreeDepth + 1
    /\ WalkEnded
    /\ Len(it.got) = maxTreeDepth
    /\ it.got[maxTreeDepth].err = ErrMaxTreeDepth
    /\ \A i \in 1..(maxTreeDepth - 1) : it.got[i].err = Nil

\* the chain of exactly maxTreeDepth directories has been walked to its end
C13_ChainWalked ==
    /\ ChainLen = maxTreeDepth
    /\ WalkEnded
    /\ Len(it.got) = maxTreeDepth - 1

====
